---------------------------- MODULE Spec2Model ----------------------------
(***************************************************************************)
(* Model of zoom_auto_capture/screenshot.py: the ScreenshotCapture engine  *)
(* (stability tracking, exact / perceptual de-duplication, eviction,       *)
(* start-up reconciliation, start / stop and the capture-loop thread).     *)
(***************************************************************************)
EXTENDS Integers, Sequences, FiniteSets, TLC

\* ------------------------------------------------------------------ bounds
MaxExisting == 3        \* files already in a directory that is only reconciled
MaxSeeded == 1          \* files already in a directory that a session captures into
MaxSaves == 3           \* files the capture loop writes in one behaviour
MaxFailures == 1        \* I/O failures (grab, unlink, save, read) in one behaviour
MaxExternal == 1        \* files removed from the directory by someone else
MaxThreads == 2         \* capture-loop Thread objects that exist at one time

\* ------------------------------------------------------- program constants

\* Python's None, for a path, an exact hash, a perceptual hash and a thread
NoPath == 0
NoHash == <<>>
NoPerceptual == -1
NoThread == 0
NoCallback == "none"
\* no ScreenshotStatus (nothing emitted, nothing read yet)
NoStatus == [none |-> TRUE]
\* no pure function used directly yet
NoProbe == [op |-> "none"]

\* ------------------------------------------------------------------ frames
\* A grabbed frame / a stored PNG: its size, its RGB bytes, and `bright`, the
\* number of leading bright cells of the grayscale grid that PIL's
\* convert("L").resize((size, size)) yields for it (see Gray).
ImgA == [width |-> 2, height |-> 1, rgb |-> <<10, 10>>, bright |-> 8]
ImgB == [width |-> 2, height |-> 1, rgb |-> <<10, 11>>, bright |-> 8]
ImgC == [width |-> 2, height |-> 1, rgb |-> <<20, 10>>, bright |-> 9]
ImgD == [width |-> 2, height |-> 1, rgb |-> <<30, 10>>, bright |-> 10]
Images == {ImgA, ImgB, ImgC, ImgD}

\* configurations a ScreenshotCapture can be constructed with
StabilitySamples == {1, 2}
HashSizes == {4}
ChangePercents == {0, 10}
Titles == {"t1"}
Labels == {"t1", "t2"}
\* what a registered status callback does when it is called
Callbacks == {"returns", "raises"}

\* ------------------------------------------------------------------- state
VARIABLES
    config,                  \* [stability_samples, hash_size, change_percent]
    running,                 \* self._running
    stop_event,              \* self._stop_event
    thread,                  \* self._thread: a worker id or None
    meeting_title,           \* self._meeting_title_display
    screenshot_count,        \* self._screenshot_count
    last_screenshot_path,    \* self._last_screenshot_path
    saved_screenshots,       \* self._saved_screenshots: exact hash -> info
    pending_hash,            \* self._pending_hash
    pending_perceptual_hash, \* self._pending_perceptual_hash
    pending_count,           \* self._pending_count
    disk,                    \* the session directory: path -> image
    clock,                   \* the time stamp the next written file is named by
    worker,                  \* worker id -> position of that capture-loop thread
    caller,                  \* position of the thread calling start() / stop()
    observed,                \* history: the latest frames this session's ticks observed
    failures,                \* history: I/O failures so far
    externals,               \* history: external removals so far
    session,                 \* history: facts about the current session
    status_callback,         \* self._status_callback
    emitted,                 \* history: the latest status handed to the callback
    read,                    \* history: the latest status another thread has read
    step,                    \* history: the latest call or tick, see Did
    probe,                   \* history: the latest direct use of a pure function
    snapshot,                \* the status an _emit_status of start() / stop() holds
    held                     \* worker id -> the file its _save_screenshot has
                             \* written and not yet indexed: <<path, image>>

vars == <<config, running, stop_event, thread, meeting_title, screenshot_count,
          last_screenshot_path, saved_screenshots, pending_hash,
          pending_perceptual_hash, pending_count, disk, clock, worker, caller,
          observed, failures, externals, session, status_callback, emitted, read,
          step, probe, snapshot, held>>

\* the fields that only status reads, registrations, direct uses and the
\* emissions and saves taken step by step touch
reader == <<status_callback, read, probe, snapshot, held>>

Workers == 1..MaxThreads
Paths == 1..(MaxExisting + MaxSaves)

\* ------------------------------------------------------------------ Hasher
\* int.to_bytes(4, "big")
ToBytes4(n) == <<(n \div 16777216) % 256, (n \div 65536) % 256, (n \div 256) % 256, n % 256>>

\* mutant: the dimensions are not fed to the digest
ComputeExactHashOfBytes(image) == image.rgb

\* SHA-256 taken as collision free: the digest stands for the bytes fed to it
ComputeExactHash(image) == ToBytes4(image.width) \o ToBytes4(image.height) \o image.rgb

RECURSIVE SumSeq(_)
SumSeq(s) == IF s = <<>> THEN 0 ELSE s[1] + SumSeq(Tail(s))

RECURSIVE PackBitsAboveMean(_, _, _, _)
\* mutant: a cell equal to the mean gives bit 0
PackBitsAboveMean(pixels, sum, n, bits) ==
    IF pixels = <<>> THEN bits
    ELSE PackBitsAboveMean(Tail(pixels), sum, n,
                           2 * bits + (IF pixels[1] * n > sum THEN 1 ELSE 0))

RECURSIVE PackBits(_, _, _, _)
\* for pixel in pixels: bits = (bits << 1) | (1 if pixel >= avg else 0),
\* with avg = sum(pixels) / len(pixels)
PackBits(pixels, sum, n, bits) ==
    IF pixels = <<>> THEN bits
    ELSE PackBits(Tail(pixels), sum, n,
                  2 * bits + (IF pixels[1] * n >= sum THEN 1 ELSE 0))

\* image.convert("L").resize((size, size), LANCZOS).getdata(), size = max(4, hash_size)
Gray(image) ==
    LET size == IF config.hash_size >= 4 THEN config.hash_size ELSE 4
    IN  [i \in 1..(size * size) |-> IF i <= image.bright THEN 200 ELSE 0]

ComputePerceptualHash(image) ==
    LET pixels == Gray(image)
    IN  PackBits(pixels, SumSeq(pixels), Len(pixels), 0)

\* -------------------------------------------------------- SimilarityPolicy
Max(a, b) == IF a >= b THEN a ELSE b
Min(a, b) == IF a <= b THEN a ELSE b

RECURSIVE Xor(_, _)
Xor(a, b) == IF a = 0 /\ b = 0 THEN 0
             ELSE ((a + b) % 2) + 2 * Xor(a \div 2, b \div 2)

RECURSIVE BitCount(_)
BitCount(n) == IF n = 0 THEN 0 ELSE (n % 2) + BitCount(n \div 2)

\* mutant: the threshold is never below one bit
SimilarityBitThresholdPositive ==
    LET total_bits == Max(1, config.hash_size * config.hash_size)
    IN  Max(1, Min(total_bits, (total_bits * config.change_percent) \div 100))

\* int(total_bits * change_threshold), the ratio held in percent
SimilarityBitThreshold ==
    LET total_bits == Max(1, config.hash_size * config.hash_size)
        threshold == (total_bits * config.change_percent) \div 100
    IN  Max(0, Min(total_bits, threshold))

\* mutant: no early return for threshold 0
AreHashesSimilarAtZero(hash_a, hash_b) ==
    BitCount(Xor(hash_a, hash_b)) <= SimilarityBitThreshold

AreHashesSimilar(hash_a, hash_b) ==
    IF SimilarityBitThreshold = 0 THEN FALSE
    ELSE BitCount(Xor(hash_a, hash_b)) <= SimilarityBitThreshold

\* ------------------------------------------------------------------ status
ScreenshotStatus(is_running, count, last, title) ==
    [is_running |-> is_running, screenshot_count |-> count,
     last_screenshot_path |-> last, meeting_title |-> title]

\* the status property: the four fields read under the status lock
Status == ScreenshotStatus(running, screenshot_count, last_screenshot_path, meeting_title)

\* mutant: the callback is never called
EmitStatusNever(callback, status) ==
    [called |-> FALSE, status |-> status, raised |-> FALSE]

\* mutant: an exception of the callback is not caught
EmitStatusPropagates(callback, status) ==
    [called |-> callback # NoCallback, status |-> status, raised |-> callback = "raises"]

\* _emit_status with `status` the snapshot it takes: whether the callback was
\* called, and whether _emit_status raised (it catches what the callback raises)
EmitStatus(callback, status) ==
    [called |-> callback # NoCallback, status |-> status, raised |-> FALSE]

\* the emissions of a stretch of code: _emit_status is reached only if `due`
EmitIf(due, callback, status) == IF due THEN <<EmitStatus(callback, status)>> ELSE <<>>
Propagated(emits) == \E i \in DOMAIN emits : emits[i].raised
Delivered(emits) == {i \in DOMAIN emits : emits[i].called}
Calls(emits) == Cardinality(Delivered(emits))
LatestStatus(emits, before) ==
    IF Delivered(emits) = {} THEN before
    ELSE emits[CHOOSE i \in Delivered(emits) : \A j \in Delivered(emits) : j <= i].status

\* history: what the latest call or tick was (op), how many times it called
\* the status callback, and whether it raised; op "fallback" is a capture of
\* the full display made after the capture of the share window had fed the
\* tracker in the same iteration
Did(op, calls, raised) == [op |-> op, calls |-> calls, raised |-> raised]

\* ------------------------------------------------------------ ArchiveIndex
Restrict(f, S) == [x \in S |-> f[x]]
Values(f) == {f[x] : x \in DOMAIN f}

SavedScreenshotInfo(path, exact_hash, perceptual_hash) ==
    [path |-> path, exact_hash |-> exact_hash, perceptual_hash |-> perceptual_hash]

\* mutant: nothing is ever found similar
FindSimilarScreenshotsNone(saved, perceptual_hash) == {}

FindSimilarScreenshots(saved, perceptual_hash) ==
    IF DOMAIN saved = {} THEN {}
    ELSE IF SimilarityBitThreshold = 0 THEN {}
    ELSE {info \in Values(saved) : AreHashesSimilar(info.perceptual_hash, perceptual_hash)}

\* mutant: the file is reported deleted and left in place
DeleteFileSafelyKeeps(d, path, undeletable) == [disk |-> d, deleted |-> TRUE]

\* path.unlink(missing_ok=True); an unlink of a path in `undeletable` raises
DeleteFileSafely(d, path, undeletable) ==
    IF path \in DOMAIN d /\ path \in undeletable
    THEN [disk |-> d, deleted |-> FALSE]
    ELSE [disk |-> Restrict(d, DOMAIN d \ {path}), deleted |-> TRUE]

\* mutant: a record whose file could not be unlinked stays in the index
RemoveSavedScreenshotsKeepsStuck(infos, saved, d, last, undeletable) ==
    LET found == {info.exact_hash : info \in infos} \cap DOMAIN saved
        popped == {h \in found : DeleteFileSafely(d, saved[h].path, undeletable).deleted}
        paths == {saved[h].path : h \in popped}
    IN  [saved |-> Restrict(saved, DOMAIN saved \ popped),
         disk |-> Restrict(d, DOMAIN d \ paths),
         last |-> IF last \in paths THEN NoPath ELSE last,
         removed_any |-> popped # {},
         stuck |-> {saved[h].path : h \in found \ popped}]

\* Pops every info of `infos` that is in the index, unlinks its file, clears
\* the last path when it names a popped file.  The loop's iterations act on
\* different keys and paths, so their order does not matter.  `stuck` are the
\* files whose unlink raised.
RemoveSavedScreenshots(infos, saved, d, last, undeletable) ==
    LET popped == {info.exact_hash : info \in infos} \cap DOMAIN saved
        paths == {saved[h].path : h \in popped}
        gone == {p \in paths : p \notin DOMAIN DeleteFileSafely(d, p, undeletable).disk}
    IN  [saved |-> Restrict(saved, DOMAIN saved \ popped),
         disk |-> Restrict(d, DOMAIN d \ gone),
         last |-> IF last \in paths THEN NoPath ELSE last,
         removed_any |-> popped # {},
         stuck |-> paths \ gone]

\* mutant: the record of the same exact hash is not looked up
PrepareSimilarOnly(current_hash, perceptual_hash, saved, d, last, undeletable) ==
    RemoveSavedScreenshots(FindSimilarScreenshots(saved, perceptual_hash), saved, d,
                           last, undeletable)

PrepareForNewScreenshot(current_hash, perceptual_hash, saved, d, last, undeletable) ==
    LET existing == IF current_hash \in DOMAIN saved THEN {saved[current_hash]} ELSE {}
        to_remove == existing \cup FindSimilarScreenshots(saved, perceptual_hash)
    IN  RemoveSavedScreenshots(to_remove, saved, d, last, undeletable)

\* ------------------------------------------------------- ArchiveReconciler
\* mutant: no pruning pass
PruneNothing(saved, d, last, undeletable) ==
    [saved |-> saved, disk |-> d, last |-> last, removed_any |-> FALSE, stuck |-> {}]

RECURSIVE KeptAmong(_, _)
\* the infos of `todo` that are similar to none of the infos kept before
\* them, in path order
KeptAmong(todo, kept) ==
    IF todo = {} THEN kept
    ELSE LET candidate == CHOOSE c \in todo : \A o \in todo : c.path <= o.path
         IN  KeptAmong(todo \ {candidate},
                       IF \E prior \in kept :
                             AreHashesSimilar(candidate.perceptual_hash,
                                              prior.perceptual_hash)
                       THEN kept ELSE kept \cup {candidate})

\* mutant: a candidate is compared with the earlier infos that stay only
PruneAgainstKept(saved, d, last, undeletable) ==
    RemoveSavedScreenshots(Values(saved) \ KeptAmong(Values(saved), {}), saved, d,
                           last, undeletable)

\* infos in dict order, which after the scan is sorted path order
PruneExistingSimilarScreenshots(saved, d, last, undeletable) ==
    LET infos == Values(saved)
        to_remove == {candidate \in infos :
                        \E prior \in infos :
                            /\ prior.path < candidate.path
                            /\ AreHashesSimilar(candidate.perceptual_hash,
                                                prior.perceptual_hash)}
    IN  RemoveSavedScreenshots(to_remove, saved, d, last, undeletable)

MinOf(S) == CHOOSE x \in S : \A y \in S : x <= y

\* mutant: the existing files are not indexed
ScanNothing(files, saved, d, unreadable, undeletable) ==
    [saved |-> saved, disk |-> d, stuck |-> {}]

RECURSIVE ScanUpToFailure(_, _, _, _, _)
\* mutant: the scan ends at the first file that cannot be read
ScanUpToFailure(files, saved, d, unreadable, undeletable) ==
    IF files = {} THEN [saved |-> saved, disk |-> d, stuck |-> {}]
    ELSE IF MinOf(files) \in unreadable THEN [saved |-> saved, disk |-> d, stuck |-> {}]
    ELSE LET file_path == MinOf(files)
             exact_hash == ComputeExactHash(d[file_path])
             unlinked == DeleteFileSafely(d, file_path, undeletable)
             scanned == ScanUpToFailure(files \ {file_path}, saved, unlinked.disk,
                                        unreadable, undeletable)
         IN  IF exact_hash \in DOMAIN saved
             THEN [scanned EXCEPT !.stuck = @ \cup (IF unlinked.deleted THEN {}
                                                    ELSE {file_path})]
             ELSE ScanUpToFailure(files \ {file_path},
                                  saved @@ (exact_hash :>
                                      SavedScreenshotInfo(file_path, exact_hash,
                                          ComputePerceptualHash(d[file_path]))),
                                  d, unreadable, undeletable)

RECURSIVE ScanFiles(_, _, _, _, _)
\* the loop over sorted(existing_files)
ScanFiles(files, saved, d, unreadable, undeletable) ==
    IF files = {} THEN [saved |-> saved, disk |-> d, stuck |-> {}]
    ELSE LET file_path == MinOf(files)
             rest == files \ {file_path}
             exact_hash == ComputeExactHash(d[file_path])
             perceptual_hash == ComputePerceptualHash(d[file_path])
             unlinked == DeleteFileSafely(d, file_path, undeletable)
             scanned == ScanFiles(rest, saved, unlinked.disk, unreadable, undeletable)
         IN  IF file_path \in unreadable
             THEN ScanFiles(rest, saved, d, unreadable, undeletable)
             ELSE IF exact_hash \in DOMAIN saved
             THEN [scanned EXCEPT !.stuck = @ \cup (IF unlinked.deleted THEN {}
                                                    ELSE {file_path})]
             ELSE ScanFiles(rest,
                            saved @@ (exact_hash :>
                                SavedScreenshotInfo(file_path, exact_hash, perceptual_hash)),
                            d, unreadable, undeletable)

LoadExistingHashes(saved, d, last, unreadable, undeletable) ==
    IF DOMAIN d = {} THEN [saved |-> saved, disk |-> d, last |-> last, stuck |-> {},
                           removed_any |-> FALSE]
    ELSE LET scanned == ScanFiles(DOMAIN d, saved, d, unreadable, undeletable)
             pruned == PruneExistingSimilarScreenshots(scanned.saved, scanned.disk,
                                                       last, undeletable)
         IN  [saved |-> pruned.saved, disk |-> pruned.disk, last |-> pruned.last,
              stuck |-> scanned.stuck \cup pruned.stuck,
              removed_any |-> pruned.removed_any]

\* ------------------------------------------------------------ CaptureLoop
\* mutant: the archive is not consulted
AlreadySavedNever(current_hash) == FALSE

\* if current_hash in self._saved_screenshots
AlreadySaved(current_hash) == current_hash \in DOMAIN saved_screenshots

\* mutant: never a continuation
IsStableNever(current_hash, perceptual_hash) == FALSE

\* mutant: a continuation only on the same exact hash
IsStableExactOnly(current_hash, perceptual_hash) == pending_hash = current_hash

\* the `stable` flag of the stability check
IsStable(current_hash, perceptual_hash) ==
    \/ pending_hash = current_hash
    \/ /\ pending_perceptual_hash # NoPerceptual
       /\ AreHashesSimilar(pending_perceptual_hash, perceptual_hash)

\* mutant: one observation too many
StabilityReachedLate(count) == count > config.stability_samples

\* mutant: one observation too few
StabilityReachedEarly(count) == count + 1 >= config.stability_samples

\* if self._pending_count >= self._stability_samples
StabilityReached(count) == count >= config.stability_samples

\* mutant: a save leaves the count as it is
CountKept(count) == count

\* self._screenshot_count += 1
CountIncremented(count) == count + 1

\* _capture_and_check_stability(sct, monitor) on a grabbed `image`, with the
\* _save_screenshot it may call and `callback` the registered status callback:
\* the values of the fields afterwards.  `raised` tells that image.save (or
\* an emission) raised and left the tick half done, `stuck` the files whose
\* unlink raised, `emits` the emissions of the tick in order.
CaptureAndCheckStabilityWith(callback, image, undeletable, save_fails) ==
    LET current_hash == ComputeExactHash(image)
        perceptual_hash == ComputePerceptualHash(image)
        similar_infos == FindSimilarScreenshots(saved_screenshots, perceptual_hash)
        evicted == IF similar_infos # {}
                   THEN RemoveSavedScreenshots(similar_infos, saved_screenshots, disk,
                                               last_screenshot_path, undeletable)
                   ELSE [saved |-> saved_screenshots, disk |-> disk,
                         last |-> last_screenshot_path, removed_any |-> FALSE,
                         stuck |-> {}]
        e_evicted == EmitIf(evicted.removed_any, callback,
                            ScreenshotStatus(running, screenshot_count, evicted.last,
                                             meeting_title))
        fresh == pending_hash = NoHash \/ ~IsStable(current_hash, perceptual_hash)
        p_hash == IF fresh THEN current_hash ELSE pending_hash
        p_perceptual == IF fresh THEN perceptual_hash ELSE pending_perceptual_hash
        p_count == IF fresh THEN 1 ELSE pending_count + 1
        prepared == PrepareForNewScreenshot(current_hash, perceptual_hash, evicted.saved,
                                            evicted.disk, evicted.last, undeletable)
        e_prepared == e_evicted \o
                      EmitIf(prepared.removed_any, callback,
                             ScreenshotStatus(running, screenshot_count, prepared.last,
                                              meeting_title))
        screenshot_path == clock
        e_saved == e_prepared \o
                   EmitIf(TRUE, callback,
                          ScreenshotStatus(running, CountIncremented(screenshot_count), screenshot_path,
                                           meeting_title))
        inserted == prepared.saved @@ (current_hash :>
                        SavedScreenshotInfo(screenshot_path, current_hash, perceptual_hash))
        written == prepared.disk @@ (screenshot_path :> image)
    IN  IF AlreadySaved(current_hash)
        THEN \* _reset_pending
             [saved |-> saved_screenshots, disk |-> disk, last |-> last_screenshot_path,
              count |-> screenshot_count, p_hash |-> NoHash,
              p_perceptual |-> NoPerceptual, p_count |-> 0,
              wrote |-> FALSE, raised |-> FALSE, stuck |-> {}, emits |-> <<>>]
        ELSE IF Propagated(e_evicted)
        THEN [saved |-> evicted.saved, disk |-> evicted.disk, last |-> evicted.last,
              count |-> screenshot_count, p_hash |-> pending_hash,
              p_perceptual |-> pending_perceptual_hash, p_count |-> pending_count,
              wrote |-> FALSE, raised |-> TRUE, stuck |-> evicted.stuck,
              emits |-> e_evicted]
        ELSE IF ~StabilityReached(p_count)
        THEN [saved |-> evicted.saved, disk |-> evicted.disk, last |-> evicted.last,
              count |-> screenshot_count, p_hash |-> p_hash,
              p_perceptual |-> p_perceptual, p_count |-> p_count,
              wrote |-> FALSE, raised |-> FALSE, stuck |-> evicted.stuck,
              emits |-> e_evicted]
        ELSE IF save_fails \/ Propagated(e_prepared)
        THEN \* image.save raised after _prepare_for_new_screenshot
             [saved |-> prepared.saved, disk |-> prepared.disk, last |-> prepared.last,
              count |-> screenshot_count, p_hash |-> p_hash,
              p_perceptual |-> p_perceptual, p_count |-> p_count,
              wrote |-> FALSE, raised |-> TRUE,
              stuck |-> evicted.stuck \cup prepared.stuck, emits |-> e_prepared]
        ELSE IF Propagated(e_saved)
        THEN [saved |-> inserted, disk |-> written, last |-> screenshot_path,
              count |-> CountIncremented(screenshot_count), p_hash |-> p_hash,
              p_perceptual |-> p_perceptual, p_count |-> p_count,
              wrote |-> TRUE, raised |-> TRUE,
              stuck |-> evicted.stuck \cup prepared.stuck, emits |-> e_saved]
        ELSE [saved |-> inserted, disk |-> written, last |-> screenshot_path,
              count |-> CountIncremented(screenshot_count), p_hash |-> NoHash,
              p_perceptual |-> NoPerceptual, p_count |-> 0,
              wrote |-> TRUE, raised |-> FALSE,
              stuck |-> evicted.stuck \cup prepared.stuck, emits |-> e_saved]

CaptureAndCheckStability(image, undeletable, save_fails) ==
    CaptureAndCheckStabilityWith(status_callback, image, undeletable, save_fails)

UndeletableSets == {{}} \cup {{p} : p \in DOMAIN disk}
UnreadableSets == {{}} \cup {{p} : p \in DOMAIN disk}

AliveWorkers == {w \in Workers : worker[w] # "absent"}
InFlight == {w \in Workers : worker[w] = "tick"}

\* history: a session's facts.  started: start() has run; clean: no unlink
\* and no read of an existing file has failed and nobody else has touched the
\* directory since start() began; uniform: every tick so far observed the
\* same frame; ticks: the observations so far, counted up to
\* stability_samples + 1; files / inherited: the paths in the directory when
\* start() began and the frames that earlier sessions had written there;
\* title: the label start() was given; unread: the files start() could not
\* read; streak: the latest ticks that observed the latest frame with nothing
\* failing, counted up to stability_samples where the history of
\* observations is kept longer than one tick; found: the directory as
\* start() found it, kept until the session's first tick.
\* ticks, files and inherited are kept only while the session is uniform.
Monitor(s) == IF s.uniform THEN s
              ELSE [s EXCEPT !.ticks = 0, !.files = {}, !.inherited = {}]

\* history: the latest n observations
Remember(seq, x, n) == IF Len(seq) < n THEN Append(seq, x) ELSE Append(Tail(seq), x)

\* ------------------------------------------------------------------- Init
\* a ScreenshotCapture right after __init__, on a session directory holding
\* the files `dir` of earlier runs
Dirs(n) == UNION {[1..k -> Images] : k \in 0..n}
Configs == [stability_samples : StabilitySamples, hash_size : HashSizes,
            change_percent : ChangePercents]

InitOn(configs, dirs) ==
    /\ config \in configs
    /\ running = FALSE
    /\ stop_event = FALSE
    /\ thread = NoThread
    /\ meeting_title = "undetected"
    /\ screenshot_count = 0
    /\ last_screenshot_path = NoPath
    /\ saved_screenshots = <<>>
    /\ pending_hash = NoHash
    /\ pending_perceptual_hash = NoPerceptual
    /\ pending_count = 0
    /\ disk \in dirs
    /\ clock = MaxExisting + 1
    /\ worker = [w \in Workers |-> "absent"]
    /\ caller = "idle"
    /\ observed = <<>>
    /\ failures = 0
    /\ externals = 0
    /\ session = [started |-> FALSE, clean |-> TRUE, uniform |-> TRUE, ticks |-> 0,
                  files |-> {}, inherited |-> {}, title |-> "undetected",
                  unread |-> {}, streak |-> 0, found |-> <<>>]
    /\ status_callback = NoCallback
    /\ emitted = NoStatus
    /\ read = NoStatus
    /\ step = Did("init", 0, FALSE)
    /\ probe = NoProbe
    /\ snapshot = NoStatus
    /\ held = [w \in Workers |-> <<>>]

Init == InitOn(Configs, Dirs(MaxSeeded))

\* a call that returns at once: nothing but the history changes
Noop(op) ==
    /\ step' = Did(op, 0, FALSE)
    /\ UNCHANGED <<config, running, stop_event, thread, meeting_title,
                   screenshot_count, last_screenshot_path, saved_screenshots,
                   pending_hash, pending_perceptual_hash, pending_count, disk, clock,
                   worker, caller, observed, failures, externals, session, emitted,
                   reader>>

\* mutant: the running flag is not consulted
IsRunningNever == FALSE

\* the is_running property
IsRunning == running

\* register_status_callback(callback)
RegisterStatusCallback(callback) ==
    /\ status_callback = NoCallback
    /\ status_callback' = callback
    /\ UNCHANGED <<config, running, stop_event, thread, meeting_title,
                   screenshot_count, last_screenshot_path, saved_screenshots,
                   pending_hash, pending_perceptual_hash, pending_count, disk, clock,
                   worker, caller, observed, failures, externals, session, emitted,
                   read, step, probe, snapshot, held>>

\* another thread reads the status property; history: with the label of the
\* session that the latest completed start() began
StatusRead ==
    /\ read' = [status |-> Status, label |-> session.title]
    /\ UNCHANGED <<config, running, stop_event, thread, meeting_title,
                   screenshot_count, last_screenshot_path, saved_screenshots,
                   pending_hash, pending_perceptual_hash, pending_count, disk, clock,
                   worker, caller, observed, failures, externals, session,
                   status_callback, emitted, step, probe, snapshot, held>>

\* ---------------------------------------------------- direct uses (pure)
\* perceptual hashes and frames the pure functions are applied to
Fingerprints == {0, 1, 3, 7, 255, 65280, 65281, 65535}
Pixels == {10, 11}
SizedFrames(w, h) ==
    {[width |-> w, height |-> h, rgb |-> r, bright |-> 8] : r \in [1..(w * h) -> Pixels]}
ProbeFrames == UNION {SizedFrames(w, h) : w \in {1, 2}, h \in {1, 2}}

\* the unchanged fields of a direct use; each behaviour makes one direct use
Resting == <<config, running, stop_event, thread, meeting_title, screenshot_count,
             last_screenshot_path, saved_screenshots, pending_hash,
             pending_perceptual_hash, pending_count, disk, clock, worker, caller,
             observed, failures, externals, session, status_callback, emitted, read,
             step, snapshot, held>>

\* _are_hashes_similar(hash_a, hash_b)
ProbeSimilar(hash_a, hash_b) ==
    /\ probe = NoProbe
    /\ probe' = [op |-> "similar", hash_a |-> hash_a, hash_b |-> hash_b,
                 similar |-> AreHashesSimilar(hash_a, hash_b)]
    /\ UNCHANGED Resting

\* _similarity_bit_threshold() and the number of bits that
\* _compute_perceptual_hash(image) packs
ProbeGrid(image) ==
    /\ probe = NoProbe
    /\ probe' = [op |-> "grid", threshold |-> SimilarityBitThreshold,
                 bits |-> Len(Gray(image))]
    /\ UNCHANGED Resting

\* _compute_exact_hash of two frames
ProbeExact(image_a, image_b) ==
    /\ probe = NoProbe
    /\ probe' = [op |-> "exact", image_a |-> image_a, image_b |-> image_b,
                 hash_a |-> ComputeExactHash(image_a),
                 hash_b |-> ComputeExactHash(image_b)]
    /\ UNCHANGED Resting

\* the grids of 4 x 4 grayscale cells, row by row, that the packing loop of
\* _compute_perceptual_hash is applied to
GridRows == {<<0, 0, 0, 0>>, <<255, 255, 255, 255>>, <<0, 255, 0, 255>>,
             <<10, 20, 30, 40>>, <<128, 127, 128, 127>>, <<255, 0, 0, 0>>}
Grids == {a \o b \o c \o d : a \in GridRows, b \in GridRows, c \in GridRows,
                               d \in GridRows}

\* the loop of _compute_perceptual_hash over the cells `pixels`
ProbePack(pixels) ==
    /\ probe = NoProbe
    /\ probe' = [op |-> "pack", pixels |-> pixels,
                 bits |-> PackBits(pixels, SumSeq(pixels), Len(pixels), 0)]
    /\ UNCHANGED Resting

\* _prepare_for_new_screenshot(current_hash, perceptual_hash) called directly
\* with the hashes of `image` on an instance that is not running, as the
\* unit test calls it; each behaviour makes one direct use
Prepare(image, undeletable) ==
    /\ probe = NoProbe
    /\ caller = "idle"
    /\ ~running
    /\ undeletable # {} => failures < MaxFailures
    /\ \E r \in {PrepareForNewScreenshot(ComputeExactHash(image),
                                         ComputePerceptualHash(image),
                                         saved_screenshots, disk,
                                         last_screenshot_path, undeletable)} :
       LET emits == EmitIf(r.removed_any, status_callback,
                           ScreenshotStatus(running, screenshot_count, r.last,
                                            meeting_title))
       IN  /\ undeletable # {} => r.stuck # {}
           /\ failures' = failures + (IF r.stuck # {} THEN 1 ELSE 0)
           /\ session' = [session EXCEPT !.clean = @ /\ r.stuck = {}]
           /\ saved_screenshots' = r.saved
           /\ disk' = r.disk
           /\ last_screenshot_path' = r.last
           /\ emitted' = LatestStatus(emits, emitted)
           /\ step' = Did("prepare", Calls(emits), FALSE)
    /\ probe' = [op |-> "prepare", image |-> image]
    /\ UNCHANGED <<config, running, stop_event, thread, meeting_title,
                   screenshot_count, pending_hash, pending_perceptual_hash,
                   pending_count, clock, worker, caller, observed, externals,
                   status_callback, read, snapshot, held>>

\* ------------------------------------------------------------------ start
\* start(meeting_title, slug) past its two early returns: resets the session
\* fields, reconciles the directory, starts the capture-loop thread, emits
Launch(title, unreadable, undeletable) ==
    /\ AliveWorkers # Workers
    /\ (unreadable # {} \/ undeletable # {}) => failures < MaxFailures
    /\ unreadable = {} \/ undeletable = {}
    /\ \E loaded \in {LoadExistingHashes(<<>>, disk, NoPath, unreadable, undeletable)} :
       LET failed == unreadable \cap DOMAIN disk # {} \/ loaded.stuck # {}
           w == MinOf(Workers \ AliveWorkers)
           e_pruned == EmitIf(loaded.removed_any, status_callback,
                              ScreenshotStatus(running, 0, loaded.last, title))
           e_started == e_pruned \o
                        EmitIf(TRUE, status_callback,
                               ScreenshotStatus(TRUE, 0, loaded.last, title))
           emits == IF Propagated(e_pruned) THEN e_pruned ELSE e_started
       IN  /\ undeletable # {} => failed
           /\ failures + (IF failed THEN 1 ELSE 0) <= MaxFailures
           /\ failures' = failures + (IF failed THEN 1 ELSE 0)
           /\ meeting_title' = title
           /\ screenshot_count' = 0
           /\ last_screenshot_path' = loaded.last
           /\ saved_screenshots' = loaded.saved
           /\ pending_hash' = NoHash
           /\ pending_perceptual_hash' = NoPerceptual
           /\ disk' = loaded.disk
           /\ session' = [started |-> TRUE, clean |-> ~failed, uniform |-> TRUE,
                          ticks |-> 0, files |-> DOMAIN disk,
                          inherited |-> {disk[p] : p \in {q \in DOMAIN disk : q > MaxExisting}},
                          title |-> title, unread |-> unreadable \cap DOMAIN disk,
                          streak |-> 0, found |-> disk]
           /\ IF Propagated(e_pruned)
              THEN UNCHANGED <<thread, worker, stop_event, running>>
              ELSE /\ thread' = w
                   /\ worker' = [worker EXCEPT ![w] = "check"]
                   /\ stop_event' = FALSE
                   /\ running' = TRUE
           /\ emitted' = LatestStatus(emits, emitted)
           /\ step' = Did("start", Calls(emits), Propagated(emits))
    /\ observed' = <<>>
    /\ UNCHANGED <<config, pending_count, clock, externals, reader>>

\* start() on a session that is not running
Start(title, unreadable, undeletable) ==
    /\ caller = "idle"
    /\ ~running
    /\ Launch(title, unreadable, undeletable)
    /\ UNCHANGED caller

\* start() whatever the session's state
StartCall(title) ==
    /\ caller = "idle"
    /\ IF IsRunning THEN Noop("start")
       ELSE Launch(title, {}, {}) /\ UNCHANGED caller

\* start() statement by statement, for a reader on another thread: the
\* label, the count and the last path are written one after the other
StartLabel(title) ==
    /\ caller = "idle"
    /\ ~IsRunning
    /\ meeting_title' = title
    /\ caller' = "start_count"
    /\ UNCHANGED <<config, running, stop_event, thread, screenshot_count,
                   last_screenshot_path, saved_screenshots, pending_hash,
                   pending_perceptual_hash, pending_count, disk, clock, worker,
                   observed, failures, externals, session, emitted, reader, step>>

StartCount ==
    /\ caller = "start_count"
    /\ screenshot_count' = 0
    /\ caller' = "start_path"
    /\ UNCHANGED <<config, running, stop_event, thread, meeting_title,
                   last_screenshot_path, saved_screenshots, pending_hash,
                   pending_perceptual_hash, pending_count, disk, clock, worker,
                   observed, failures, externals, session, emitted, reader, step>>

StartPath ==
    /\ caller = "start_path"
    /\ last_screenshot_path' = NoPath
    /\ caller' = "start_rest"
    /\ UNCHANGED <<config, running, stop_event, thread, meeting_title,
                   screenshot_count, saved_screenshots, pending_hash,
                   pending_perceptual_hash, pending_count, disk, clock, worker,
                   observed, failures, externals, session, emitted, reader, step>>

StartRest ==
    /\ caller = "start_rest"
    /\ Launch(meeting_title, {}, {})
    /\ caller' = "idle"

\* ------------------------------------------------------------------- stop
\* stop() up to the join: sets the event, clears the running flag
Signal ==
    /\ stop_event' = TRUE
    /\ running' = FALSE
    /\ caller' = "joining"
    /\ UNCHANGED <<config, thread, meeting_title, screenshot_count,
                   last_screenshot_path, saved_screenshots, pending_hash,
                   pending_perceptual_hash, pending_count, disk, clock, worker,
                   observed, failures, externals, session, emitted, reader, step>>

StopSignal ==
    /\ caller = "idle"
    /\ running
    /\ Signal

\* stop() up to the join, whatever the session's state
StopBegin ==
    /\ caller = "idle"
    /\ IF ~IsRunning THEN Noop("stop") ELSE Signal

\* mutant: a join without a timeout
JoinReturnsAtEndOnly(w) == worker[w] = "absent"

\* self._thread.join(timeout=5) returns: the thread has ended, or the tick in
\* flight outlasts the five seconds
JoinReturns(w) == worker[w] \in {"absent", "tick"}

\* the rest of stop(): the join returns, the status is emitted
StopJoin ==
    /\ caller = "joining"
    /\ JoinReturns(thread)
    /\ thread' = NoThread
    /\ caller' = "idle"
    /\ LET emits == EmitIf(TRUE, status_callback, Status)
       IN  /\ emitted' = LatestStatus(emits, emitted)
           /\ step' = Did("stop", Calls(emits), Propagated(emits))
    /\ UNCHANGED <<config, running, stop_event, meeting_title, screenshot_count,
                   last_screenshot_path, saved_screenshots, pending_hash,
                   pending_perceptual_hash, pending_count, disk, clock, worker,
                   observed, failures, externals, session, reader>>

\* stop() past its early return, the worker ending within the join timeout
Halt ==
    /\ stop_event' = TRUE
    /\ running' = FALSE
    /\ worker' = [worker EXCEPT ![thread] = "absent"]
    /\ thread' = NoThread
    /\ LET emits == EmitIf(TRUE, status_callback,
                           ScreenshotStatus(FALSE, screenshot_count,
                                            last_screenshot_path, meeting_title))
       IN  /\ emitted' = LatestStatus(emits, emitted)
           /\ step' = Did("stop", Calls(emits), Propagated(emits))
    /\ UNCHANGED <<config, meeting_title, screenshot_count, last_screenshot_path,
                   saved_screenshots, pending_hash, pending_perceptual_hash,
                   pending_count, disk, clock, caller, observed, failures,
                   externals, session, reader>>

\* stop() on a running session whose worker ends within the join timeout
Stop ==
    /\ caller = "idle"
    /\ running
    /\ Halt

\* stop() whatever the session's state
StopCall ==
    /\ caller = "idle"
    /\ IF ~IsRunning THEN Noop("stop") ELSE Halt

\* ---------------------------------------- start() and stop(), emission split
\* start() past its early returns up to self._thread.start(), with no file
\* unreadable and no unlink raising; its closing _emit_status is still to come
StartThread(title) ==
    /\ caller = "idle"
    /\ ~IsRunning
    /\ AliveWorkers # Workers
    /\ \E loaded \in {LoadExistingHashes(<<>>, disk, NoPath, {}, {})} :
       LET w == MinOf(Workers \ AliveWorkers)
           e_pruned == EmitIf(loaded.removed_any, status_callback,
                              ScreenshotStatus(running, 0, loaded.last, title))
       IN  /\ meeting_title' = title
           /\ screenshot_count' = 0
           /\ last_screenshot_path' = loaded.last
           /\ saved_screenshots' = loaded.saved
           /\ pending_hash' = NoHash
           /\ pending_perceptual_hash' = NoPerceptual
           /\ disk' = loaded.disk
           /\ session' = [started |-> TRUE, clean |-> TRUE, uniform |-> TRUE,
                          ticks |-> 0, files |-> DOMAIN disk,
                          inherited |-> {disk[p] : p \in {q \in DOMAIN disk : q > MaxExisting}},
                          title |-> title, unread |-> {}, streak |-> 0, found |-> disk]
           /\ thread' = w
           /\ worker' = [worker EXCEPT ![w] = "check"]
           /\ stop_event' = FALSE
           /\ running' = TRUE
           /\ emitted' = LatestStatus(e_pruned, emitted)
           /\ step' = Did("start", Calls(e_pruned), FALSE)
    /\ observed' = <<>>
    /\ caller' = "emit_start"
    /\ UNCHANGED <<config, pending_count, clock, failures, externals, reader>>

\* stop() from the join to its closing _emit_status: the join returns
StopJoined ==
    /\ caller = "joining"
    /\ JoinReturns(thread)
    /\ thread' = NoThread
    /\ caller' = "emit_stop"
    /\ UNCHANGED <<config, running, stop_event, meeting_title, screenshot_count,
                   last_screenshot_path, saved_screenshots, pending_hash,
                   pending_perceptual_hash, pending_count, disk, clock, worker,
                   observed, failures, externals, session, emitted, reader, step>>

\* _emit_status on the caller's thread, first statement: status = self.status
EmitSnapshot ==
    /\ caller \in {"emit_start", "emit_stop"}
    /\ snapshot' = Status
    /\ caller' = (IF caller = "emit_start" THEN "call_start" ELSE "call_stop")
    /\ UNCHANGED <<config, running, stop_event, thread, meeting_title,
                   screenshot_count, last_screenshot_path, saved_screenshots,
                   pending_hash, pending_perceptual_hash, pending_count, disk, clock,
                   worker, observed, failures, externals, session, emitted,
                   status_callback, read, probe, held, step>>

\* _emit_status on the caller's thread, the rest: the callback is read and
\* called with the status taken before
EmitCall ==
    /\ caller \in {"call_start", "call_stop"}
    /\ LET emits == <<EmitStatus(status_callback, snapshot)>>
       IN  /\ emitted' = LatestStatus(emits, emitted)
           /\ step' = Did(IF caller = "call_start" THEN "start" ELSE "stop",
                          Calls(emits), Propagated(emits))
    /\ snapshot' = NoStatus
    /\ caller' = "idle"
    /\ UNCHANGED <<config, running, stop_event, thread, meeting_title,
                   screenshot_count, last_screenshot_path, saved_screenshots,
                   pending_hash, pending_perceptual_hash, pending_count, disk, clock,
                   worker, observed, failures, externals, session,
                   status_callback, read, probe, held>>

\* ----------------------------------------------------------- _capture_loop
\* the try block of one iteration, the grab raising
GrabFails ==
    /\ failures < MaxFailures
    /\ failures' = failures + 1
    /\ step' = Did("tick", 0, TRUE)
    /\ session' = [session EXCEPT !.streak = 0]
    /\ UNCHANGED <<config, running, stop_event, thread, meeting_title,
                   screenshot_count, last_screenshot_path, saved_screenshots,
                   pending_hash, pending_perceptual_hash, pending_count, disk, clock,
                   caller, observed, externals, emitted, reader>>

\* _capture_and_check_stability on a grabbed frame, recorded as `op`
CaptureAs(op, image, undeletable, save_fails, window) ==
    /\ (save_fails \/ undeletable # {}) => failures < MaxFailures
    /\ \E r \in {CaptureAndCheckStability(image, undeletable, save_fails)} :
       LET stuck == r.stuck
           failed == r.raised \/ stuck # {}
       IN  /\ r.wrote => clock < MaxExisting + MaxSaves + 1
           /\ save_fails => (r.raised /\ ~r.wrote)
           /\ undeletable # {} => stuck # {}
           /\ failures + (IF failed THEN 1 ELSE 0) <= MaxFailures
           /\ failures' = failures + (IF failed THEN 1 ELSE 0)
           /\ session' = Monitor([session EXCEPT
                             !.clean = @ /\ stuck = {},
                             !.ticks = Min(@ + 1, config.stability_samples + 1),
                             !.uniform = @ /\ (observed = <<>> \/
                                               observed[Len(observed)] = image),
                             !.streak = IF window = 1 \/ failed THEN 0
                                        ELSE IF observed # <<>> /\
                                                observed[Len(observed)] = image
                                        THEN Min(@ + 1, config.stability_samples)
                                        ELSE 1,
                             !.found = <<>>])
           /\ saved_screenshots' = r.saved
           /\ disk' = r.disk
           /\ last_screenshot_path' = r.last
           /\ screenshot_count' = r.count
           /\ pending_hash' = r.p_hash
           /\ pending_perceptual_hash' = r.p_perceptual
           /\ pending_count' = r.p_count
           /\ clock' = IF r.wrote THEN clock + 1 ELSE clock
           /\ emitted' = LatestStatus(r.emits, emitted)
           /\ step' = Did(op, Calls(r.emits), r.raised)
    /\ observed' = Remember(observed, image, window)
    /\ UNCHANGED <<config, running, stop_event, thread, meeting_title, caller,
                   externals, reader>>

\* the try block of one iteration on a grabbed frame, no share window found
Capture(image, undeletable, save_fails, window) ==
    CaptureAs("tick", image, undeletable, save_fails, window)

\* while not self._stop_event.is_set()
WorkerCheck(w) ==
    /\ worker[w] = "check"
    /\ worker' = [worker EXCEPT ![w] = IF stop_event THEN "absent" ELSE "tick"]
    /\ UNCHANGED <<config, running, stop_event, thread, meeting_title,
                   screenshot_count, last_screenshot_path, saved_screenshots,
                   pending_hash, pending_perceptual_hash, pending_count, disk, clock,
                   caller, observed, failures, externals, session, emitted, reader,
                   step>>

\* mutant: no except clause around the tick
AfterExceptionUncaught == "absent"

\* where the loop goes on after its try block raised: except Exception logs
AfterException == "wait"

WorkerTickGrabFails(w) ==
    /\ worker[w] = "tick"
    /\ worker' = [worker EXCEPT ![w] = AfterException]
    /\ GrabFails

WorkerTick(w, image, undeletable, save_fails, window) ==
    /\ worker[w] = "tick"
    /\ Capture(image, undeletable, save_fails, window)
    /\ worker' = [worker EXCEPT ![w] = IF step'.raised THEN AfterException ELSE "wait"]

\* if self._stop_event.wait(timeout=sleep_time): break
WorkerWait(w) ==
    /\ worker[w] = "wait"
    /\ worker' = [worker EXCEPT ![w] = IF stop_event THEN "absent" ELSE "check"]
    /\ UNCHANGED <<config, running, stop_event, thread, meeting_title,
                   screenshot_count, last_screenshot_path, saved_screenshots,
                   pending_hash, pending_perceptual_hash, pending_count, disk, clock,
                   caller, observed, failures, externals, session, emitted, reader,
                   step>>

\* one whole iteration of the loop of worker w: the event is not set at the
\* while test, the try block runs, the wait times out
Tick(w, image, undeletable, save_fails, window) ==
    /\ worker[w] = "check"
    /\ ~stop_event
    /\ UNCHANGED worker
    /\ Capture(image, undeletable, save_fails, window)

TickGrabFails(w) ==
    /\ worker[w] = "check"
    /\ ~stop_event
    /\ UNCHANGED worker
    /\ GrabFails

\* a tick of worker w that saves, up to the end of the `with` block of
\* _save_screenshot: the tracker is updated, the similar records are evicted,
\* the file is written, the count and the last path are set; the record is
\* not yet in the index
WorkerSaveWrite(w, image) ==
    /\ worker[w] = "tick"
    /\ \E r \in {CaptureAndCheckStability(image, {}, FALSE)} :
       LET current_hash == ComputeExactHash(image)
           perceptual_hash == ComputePerceptualHash(image)
           fresh == pending_hash = NoHash \/ ~IsStable(current_hash, perceptual_hash)
       IN  /\ r.wrote /\ ~r.raised
           /\ clock < MaxExisting + MaxSaves + 1
           /\ saved_screenshots' = Restrict(r.saved, DOMAIN r.saved \ {current_hash})
           /\ disk' = r.disk
           /\ last_screenshot_path' = r.last
           /\ screenshot_count' = r.count
           /\ pending_hash' = (IF fresh THEN current_hash ELSE pending_hash)
           /\ pending_perceptual_hash' =
                 (IF fresh THEN perceptual_hash ELSE pending_perceptual_hash)
           /\ pending_count' = (IF fresh THEN 1 ELSE pending_count + 1)
           /\ clock' = clock + 1
           /\ emitted' = LatestStatus(SubSeq(r.emits, 1, Len(r.emits) - 1), emitted)
           /\ held' = [held EXCEPT ![w] = <<r.last, image>>]
    /\ worker' = [worker EXCEPT ![w] = "insert"]
    /\ observed' = Remember(observed, image, 1)
    /\ UNCHANGED <<config, running, stop_event, thread, meeting_title, caller,
                   failures, externals, session, status_callback, read, probe,
                   snapshot, step>>

\* the rest of that tick: self._saved_screenshots[current_hash] = info, the
\* emission, and the reset of the tracker after _save_screenshot has returned
WorkerInsert(w) ==
    /\ worker[w] = "insert"
    /\ LET screenshot_path == held[w][1]
           image == held[w][2]
           current_hash == ComputeExactHash(image)
           info == SavedScreenshotInfo(screenshot_path, current_hash,
                                       ComputePerceptualHash(image))
           emits == EmitIf(TRUE, status_callback, Status)
       IN  /\ saved_screenshots' =
                 (current_hash :> info) @@
                 Restrict(saved_screenshots, DOMAIN saved_screenshots \ {current_hash})
           /\ emitted' = LatestStatus(emits, emitted)
           /\ step' = Did("tick", Calls(emits), FALSE)
    /\ pending_hash' = NoHash
    /\ pending_perceptual_hash' = NoPerceptual
    /\ pending_count' = 0
    /\ held' = [held EXCEPT ![w] = <<>>]
    /\ worker' = [worker EXCEPT ![w] = "wait"]
    /\ UNCHANGED <<config, running, stop_event, thread, meeting_title,
                   screenshot_count, last_screenshot_path, disk, clock, caller,
                   observed, failures, externals, session, status_callback, read,
                   probe, snapshot>>

\* _try_capture_screen_share finds no share window (or none large enough)
\* and returns False
WorkerNoShare(w) ==
    /\ worker[w] = "tick"
    /\ worker' = [worker EXCEPT ![w] = "display"]
    /\ UNCHANGED <<config, running, stop_event, thread, meeting_title,
                   screenshot_count, last_screenshot_path, saved_screenshots,
                   pending_hash, pending_perceptual_hash, pending_count, disk, clock,
                   caller, observed, failures, externals, session, emitted, reader,
                   step>>

\* _try_capture_screen_share captures the share window: it returns True, or
\* the capture raises, the except clause returns False and the loop goes on
\* to the full display
WorkerShare(w, image, save_fails) ==
    /\ worker[w] = "tick"
    /\ CaptureAs("tick", image, {}, save_fails, 1)
    /\ worker' = [worker EXCEPT ![w] = IF step'.raised THEN "fallback" ELSE "wait"]

\* the grab of the share window raises: nothing was observed, False is returned
WorkerShareGrabFails(w) ==
    /\ worker[w] = "tick"
    /\ worker' = [worker EXCEPT ![w] = "display"]
    /\ GrabFails

\* if not captured: self._capture_and_check_stability(sct, sct.monitors[1])
WorkerDisplay(w, image, save_fails) ==
    /\ worker[w] \in {"display", "fallback"}
    /\ CaptureAs(IF worker[w] = "fallback" THEN "fallback" ELSE "tick", image, {},
                 save_fails, 1)
    /\ worker' = [worker EXCEPT ![w] = IF step'.raised THEN AfterException ELSE "wait"]

WorkerDisplayGrabFails(w) ==
    /\ worker[w] \in {"display", "fallback"}
    /\ worker' = [worker EXCEPT ![w] = AfterException]
    /\ GrabFails

\* ------------------------------------------------------------ environment
\* somebody else removes a file from the session directory
ExternalRemove(p) ==
    /\ p \in DOMAIN disk
    /\ externals < MaxExternal
    /\ externals' = externals + 1
    /\ disk' = Restrict(disk, DOMAIN disk \ {p})
    /\ session' = [session EXCEPT !.clean = FALSE]
    /\ UNCHANGED <<config, running, stop_event, thread, meeting_title,
                   screenshot_count, last_screenshot_path, saved_screenshots,
                   pending_hash, pending_perceptual_hash, pending_count, clock, worker,
                   caller, observed, failures, emitted, reader, step>>

\* --------------------------------------------------------- specifications
\* The session as its caller and the tick function see it: whole iterations,
\* stop() joining a worker that ends in time; any I/O may fail.
Next ==
    \/ \E title \in Titles, unreadable \in UnreadableSets,
          undeletable \in UndeletableSets : Start(title, unreadable, undeletable)
    \/ Stop
    \/ \E w \in Workers : TickGrabFails(w)
    \/ \E w \in Workers, image \in Images, undeletable \in UndeletableSets,
          save_fails \in BOOLEAN : Tick(w, image, undeletable, save_fails, 1)

Spec == Init /\ [][Next]_vars

\* The same with no I/O failure, and somebody else removing files.
NextExternal ==
    \/ \E title \in Titles : Start(title, {}, {})
    \/ Stop
    \/ \E w \in Workers, image \in Images : Tick(w, image, {}, FALSE, 1)
    \/ \E p \in Paths : ExternalRemove(p)

SpecExternal == Init /\ [][NextExternal]_vars

\* The same with the history of the latest observations kept long enough
\* to hold a whole run of stable observations.
StabilityWindow == config.stability_samples + MaxFailures
StabilityConfigs == [stability_samples : {1, 2, 3}, hash_size : HashSizes,
                     change_percent : ChangePercents]

InitStability == InitOn(StabilityConfigs, {<<>>})

NextStability ==
    \/ \E title \in Titles : Start(title, {}, {})
    \/ Stop
    \/ \E w \in Workers : TickGrabFails(w)
    \/ \E w \in Workers, image \in Images, save_fails \in BOOLEAN :
          Tick(w, image, {}, save_fails, StabilityWindow)

SpecStability == InitStability /\ [][NextStability]_vars

\* Start-up reconciliation alone, on every directory of up to MaxExisting
\* files, with no I/O failure.
InitReconcile == InitOn(Configs, Dirs(MaxExisting))

NextReconcile ==
    \/ \E title \in Titles : Start(title, {}, {})
    \/ Stop

SpecReconcile == InitReconcile /\ [][NextReconcile]_vars

\* The threads: start() and stop() on the caller's thread, stop() joining
\* with a timeout, each capture-loop thread stepping through its loop.
ThreadConfigs == [stability_samples : {1}, hash_size : HashSizes, change_percent : {10}]

InitThreads == InitOn(ThreadConfigs, {<<>>})

NextThreads ==
    \/ \E title \in Titles : Start(title, {}, {})
    \/ StopSignal
    \/ StopJoin
    \/ \E w \in Workers : WorkerCheck(w)
    \/ \E w \in Workers : WorkerTickGrabFails(w)
    \/ \E w \in Workers, image \in Images : WorkerTick(w, image, {}, FALSE, 1)
    \/ \E w \in Workers : WorkerWait(w)

SpecThreads == InitThreads /\ [][NextThreads]_vars

\* The session with a status callback registered: start() and stop() called
\* in any state, whole iterations, the grab failing.
NextObserved ==
    \/ \E callback \in Callbacks : RegisterStatusCallback(callback)
    \/ \E title \in Titles : StartCall(title)
    \/ StopCall
    \/ \E w \in Workers : TickGrabFails(w)
    \/ \E w \in Workers, image \in Images : Tick(w, image, {}, FALSE, 1)

InitObserved == InitOn(Configs, {<<>>})

SpecObserved == InitObserved /\ [][NextObserved]_vars

\* The threads under the scheduling the code relies on: the join of stop()
\* returns (it has a timeout), a capture-loop thread that is at its while
\* test or in its timed wait goes on.  A tick in flight may last for ever,
\* and any tick may raise.
LoopImages == {ImgA, ImgC}

NextLoop ==
    \/ \E callback \in Callbacks : RegisterStatusCallback(callback)
    \/ \E title \in Titles : Start(title, {}, {})
    \/ StopBegin
    \/ StopJoin
    \/ \E w \in Workers : WorkerCheck(w)
    \/ \E w \in Workers : WorkerTickGrabFails(w)
    \/ \E w \in Workers, image \in LoopImages, save_fails \in BOOLEAN :
          WorkerTick(w, image, {}, save_fails, 1)
    \/ \E w \in Workers : WorkerWait(w)

InitLoop == InitOn(ThreadConfigs, {<<>>})

SpecLoop ==
    /\ InitLoop /\ [][NextLoop]_vars
    /\ WF_vars(StopJoin)
    /\ \A w \in Workers : WF_vars(WorkerCheck(w)) /\ WF_vars(WorkerWait(w))

\* start() statement by statement while another thread reads the status.
NextStatusRead ==
    \/ \E title \in Labels : StartLabel(title)
    \/ StartCount
    \/ StartPath
    \/ StartRest
    \/ Stop
    \/ \E w \in Workers, image \in Images : Tick(w, image, {}, FALSE, 1)
    \/ StatusRead

InitStatusRead == InitOn(ThreadConfigs, {<<>>})

SpecStatusRead == InitStatusRead /\ [][NextStatusRead]_vars

\* The pure functions of the hasher and the similarity policy, applied
\* directly under every configuration of grid size and change ratio.
HasherConfigs == [stability_samples : {1}, hash_size : {0, 1, 2, 3, 4, 5},
                  change_percent : {0, 2, 10, 50, 100, 150}]

InitHasher == InitOn(HasherConfigs, {<<>>})

NextHasher ==
    \/ \E hash_a \in Fingerprints, hash_b \in Fingerprints : ProbeSimilar(hash_a, hash_b)
    \/ \E image \in Images : ProbeGrid(image)
    \/ \E image_a \in ProbeFrames, image_b \in ProbeFrames : ProbeExact(image_a, image_b)
    \/ \E pixels \in Grids : ProbePack(pixels)

SpecHasher == InitHasher /\ [][NextHasher]_vars

\* Evictions and pruning with unlinks that raise and files that somebody
\* else has removed already, under a positive threshold.
DeletionConfigs == [stability_samples : {1}, hash_size : HashSizes, change_percent : {10}]

InitDeletion == InitOn(DeletionConfigs, Dirs(MaxSeeded))

NextDeletion ==
    \/ \E title \in Titles, undeletable \in UndeletableSets : Start(title, {}, undeletable)
    \/ Stop
    \/ \E w \in Workers, image \in Images, undeletable \in UndeletableSets :
          Tick(w, image, undeletable, FALSE, 1)
    \/ \E p \in Paths : ExternalRemove(p)

SpecDeletion == InitDeletion /\ [][NextDeletion]_vars

\* Start-up reconciliation on every directory of up to MaxExisting files,
\* one of which may be unreadable.
NextScan ==
    \/ \E title \in Titles, unreadable \in UnreadableSets : Start(title, unreadable, {})
    \/ Stop

SpecScan == InitReconcile /\ [][NextScan]_vars

\* _prepare_for_new_screenshot called directly on the index and the last
\* path that sessions have left behind, unlinks raising or not.
PrepareConfigs == [stability_samples : {1}, hash_size : HashSizes,
                   change_percent : ChangePercents]

InitPrepare == InitOn(PrepareConfigs, Dirs(MaxSeeded))

NextPrepare ==
    \/ \E title \in Titles : Start(title, {}, {})
    \/ Stop
    \/ \E w \in Workers, image \in Images : Tick(w, image, {}, FALSE, 1)
    \/ \E image \in Images, undeletable \in UndeletableSets : Prepare(image, undeletable)

SpecPrepare == InitPrepare /\ [][NextPrepare]_vars

\* One session with a callback registered: start() called once, stop(), the
\* capture-loop thread stepping through its loop, the closing _emit_status of
\* start() and of stop() taking the status and calling the callback in two
\* steps.
InitOrder == InitOn(ThreadConfigs, {<<>>})

NextOrder ==
    \/ \E callback \in Callbacks : RegisterStatusCallback(callback)
    \/ \E title \in Titles : ~session.started /\ StartThread(title)
    \/ StopSignal
    \/ StopJoined
    \/ EmitSnapshot
    \/ EmitCall
    \/ \E w \in Workers : WorkerCheck(w)
    \/ \E w \in Workers, image \in Images : WorkerTick(w, image, {}, FALSE, 1)
    \/ \E w \in Workers : WorkerWait(w)

SpecOrder == InitOrder /\ [][NextOrder]_vars

\* The threads with the saving tick taken in two steps: start() and stop()
\* on the caller's thread, stop() joining with a timeout, each capture-loop
\* thread stepping through its loop and through _save_screenshot.
NextSave ==
    \/ \E title \in Titles : Start(title, {}, {})
    \/ StopSignal
    \/ StopJoin
    \/ \E w \in Workers : WorkerCheck(w)
    \/ \E w \in Workers, image \in LoopImages : WorkerTick(w, image, {}, FALSE, 1)
    \/ \E w \in Workers, image \in LoopImages : WorkerSaveWrite(w, image)
    \/ \E w \in Workers : WorkerInsert(w)
    \/ \E w \in Workers : WorkerWait(w)

SpecSave == InitThreads /\ [][NextSave]_vars

\* The capture loop where a Zoom share window may be found: each iteration
\* tries the share window first and falls back to the full display.
NextShare ==
    \/ \E title \in Titles : Start(title, {}, {})
    \/ Stop
    \/ \E w \in Workers : WorkerCheck(w)
    \/ \E w \in Workers : WorkerNoShare(w)
    \/ \E w \in Workers, image \in LoopImages, save_fails \in BOOLEAN :
          WorkerShare(w, image, save_fails)
    \/ \E w \in Workers : WorkerShareGrabFails(w)
    \/ \E w \in Workers, image \in LoopImages, save_fails \in BOOLEAN :
          WorkerDisplay(w, image, save_fails)
    \/ \E w \in Workers : WorkerDisplayGrabFails(w)
    \/ \E w \in Workers : WorkerWait(w)

InitShare == InitOn(Configs, {<<>>})

SpecShare == InitShare /\ [][NextShare]_vars

\* ------------------------------------------------------------------ claims
Last(seq) == seq[Len(seq)]
HammingDistance(a, b) == BitCount(Xor(a, b))
Files == DOMAIN disk
Records == Values(saved_screenshots)

\* C1: in a session started on an empty directory with no I/O failure, once
\* the ticks have observed one and the same frame stability_samples times or
\* more, the directory holds exactly one file (that frame), the index exactly
\* one record (that frame's) and screenshot_count is 1.
C1_OneFileForOneFrame ==
    ( /\ session.started /\ failures = 0
      /\ session.uniform /\ session.files = {}
      /\ session.ticks >= config.stability_samples )
    => /\ Cardinality(Files) = 1
       /\ \A p \in Files : disk[p] = Last(observed)
       /\ DOMAIN saved_screenshots = {ComputeExactHash(Last(observed))}
       /\ screenshot_count = 1

\* the frame was saved and at least one further tick has observed it
C1_Witness ==
    /\ session.started /\ failures = 0 /\ session.uniform /\ session.files = {}
    /\ config.stability_samples = 2
    /\ session.ticks = config.stability_samples + 1
    /\ screenshot_count = 1
    /\ running

\* the observations obs end with a run of at least k observations that are
\* all the same state (same exact hash, or similar) as the first of the run
SameState(a, b) ==
    \/ ComputeExactHash(a) = ComputeExactHash(b)
    \/ AreHashesSimilar(ComputePerceptualHash(a), ComputePerceptualHash(b))

EndsStable(obs, k) ==
    \E j \in k..Len(obs) :
        \A i \in (Len(obs) - j + 1)..Len(obs) : SameState(obs[Len(obs) - j + 1], obs[i])

\* C2: a file is written only by a tick whose observation completes
\* stability_samples consecutive same-state observations, and the file holds
\* the frame observed in that tick (so a frame seen stability_samples - 1
\* times and then replaced by another frame is not saved).
C2_SaveNeedsStability ==
    [][\A p \in DOMAIN disk' \ DOMAIN disk :
          /\ observed' # <<>>
          /\ disk'[p] = Last(observed')
          /\ EndsStable(observed', config.stability_samples)]_vars

\* frame A seen once, then the similar frame C, with stability_samples = 2:
\* the file written by the second tick holds C
C2_Witness ==
    /\ config.stability_samples = 2
    /\ observed = <<ImgA, ImgC>>
    /\ last_screenshot_path # NoPath
    /\ last_screenshot_path \in Files
    /\ disk[last_screenshot_path] = ImgC
    /\ pending_hash = NoHash

\* C3 as stated: any two records of the index are more than the similarity
\* threshold apart, and every record is kept under its own exact hash.
C3_IndexPairwiseApart ==
    /\ \A h \in DOMAIN saved_screenshots : saved_screenshots[h].exact_hash = h
    /\ \A a, b \in Records :
          a # b => HammingDistance(a.perceptual_hash, b.perceptual_hash)
                     > SimilarityBitThreshold

\* C3 amended: the same whenever the similarity threshold is positive.
C3_IndexPairwiseApartPositive ==
    /\ \A h \in DOMAIN saved_screenshots : saved_screenshots[h].exact_hash = h
    /\ SimilarityBitThreshold > 0 =>
          \A a, b \in Records :
              a # b => HammingDistance(a.perceptual_hash, b.perceptual_hash)
                         > SimilarityBitThreshold

\* two records in the index under a positive threshold, one of them having
\* replaced a similar older record
C3_Witness ==
    /\ SimilarityBitThreshold > 0
    /\ Cardinality(Records) = 2
    /\ screenshot_count = 3

\* C4: a tick that removes a record from the index also inserts one.
C4_EvictionOnlyWithInsertion ==
    [][(running /\ running' /\ DOMAIN saved_screenshots \ DOMAIN saved_screenshots' # {})
          => DOMAIN saved_screenshots' \ DOMAIN saved_screenshots # {}]_vars

\* exact duplicates, and near duplicates within the threshold
ExactDuplicates(a, b) == ComputeExactHash(a) = ComputeExactHash(b)
WithinThreshold(a, b) ==
    HammingDistance(ComputePerceptualHash(a), ComputePerceptualHash(b))
        <= SimilarityBitThreshold

\* Reconciliation took the directory `before` to `after` and built `index`:
\* no two remaining files are duplicates under Near, the index holds exactly
\* one record per remaining file, and a file remains exactly when no file
\* before it in sorted order is its duplicate (first of each group stays,
\* nothing that has an earlier duplicate stays).
Reconciled(before, after, index, Near(_, _)) ==
    LET Dup(a, b) == ExactDuplicates(a, b) \/ Near(a, b)
    IN  /\ \A p \in DOMAIN after : p \in DOMAIN before /\ after[p] = before[p]
        /\ \A p, q \in DOMAIN after : p # q => ~Dup(after[p], after[q])
        /\ {r.path : r \in Values(index)} = DOMAIN after
        /\ Cardinality(DOMAIN index) = Cardinality(DOMAIN after)
        /\ \A h \in DOMAIN index :
              /\ index[h].exact_hash = h
              /\ h = ComputeExactHash(after[index[h].path])
              /\ index[h].perceptual_hash = ComputePerceptualHash(after[index[h].path])
        /\ \A p \in DOMAIN after :
              ~\E q \in DOMAIN before : q < p /\ Dup(before[q], before[p])
        /\ \A p \in DOMAIN before :
              (~\E q \in DOMAIN before : q < p /\ Dup(before[q], before[p]))
                  => p \in DOMAIN after

WithinPositiveThreshold(a, b) == SimilarityBitThreshold > 0 /\ WithinThreshold(a, b)

C6_RestartSavesNothing ==
    ( /\ session.started /\ failures = 0 /\ session.uniform
      /\ observed # <<>> /\ Last(observed) \in session.inherited )
    => /\ screenshot_count = 0
       /\ Files = session.files

\* the restarted session has observed F more than stability_samples times
C6_Witness ==
    /\ session.started /\ failures = 0 /\ session.uniform /\ running
    /\ observed # <<>> /\ Last(observed) \in session.inherited
    /\ config.stability_samples = 2
    /\ session.ticks = config.stability_samples + 1

C8_CountIsFiles ==
    (session.started /\ ~running) => screenshot_count = Cardinality(Files)

\* C9: every record of the index refers to a file that exists.
C9_RecordsHaveFiles == \A r \in Records : r.path \in Files

\* C10: at most one capture-loop thread is alive.
C10_OneWorker == Cardinality(AliveWorkers) <= 1

\* the capture-loop threads that a stop() has signalled: every thread alive
\* other than the one self._thread names, and that one while stop() joins it
Stopped == {w \in AliveWorkers : w # thread \/ caller = "joining"}

\* C11: once stop() has been called on a running session, the capture-loop
\* thread that was running starts no tick beyond the one in flight, whatever
\* start() and stop() calls follow.
C11_StoppedWorkerStartsNoTick ==
    [][\A w \in Workers :
          w \in Stopped => ~(worker[w] = "check" /\ worker'[w] = "tick")]_vars

\* the fields of the instance that a call may change
Fields == <<running, stop_event, thread, meeting_title, screenshot_count,
            last_screenshot_path, saved_screenshots, pending_hash,
            pending_perceptual_hash, pending_count, disk, emitted>>

\* C12: stop() on an instance that is not running changes no field and calls
\* no status callback; stop() on a running instance returns, with the running
\* flag cleared, also when the worker's tick never ends.
C12_StopReturns ==
    /\ [][(caller = "idle" /\ ~running /\ step'.op = "stop" /\ step' # step)
            => (UNCHANGED Fields /\ UNCHANGED worker /\ step'.calls = 0)]_vars
    /\ (caller = "joining") ~> (caller = "idle" /\ ~running)

\* stop() has returned, having called the callback, while the worker is
\* still inside its tick
C12_Witness ==
    /\ caller = "idle" /\ ~running /\ thread = NoThread
    /\ status_callback # NoCallback
    /\ step = Did("stop", 1, FALSE)
    /\ InFlight # {}

\* C13: start() on a running session leaves label, index, tracker, counters,
\* last path and thread as they are, starts no thread and calls no callback.
C13_StartWhileRunningIsNoop ==
    [][(running /\ step'.op = "start")
         => (UNCHANGED Fields /\ UNCHANGED worker /\ step'.calls = 0)]_vars

\* start() was called on a running session that has saved a file
C13_Witness ==
    /\ running
    /\ step = Did("start", 0, FALSE)
    /\ status_callback # NoCallback
    /\ screenshot_count > 0
    /\ pending_hash # NoHash

\* C14: when start() has begun a session the tracker is empty (no candidate
\* hashes, count 0), screenshot_count is 0, no last path is set and the index
\* holds records of files of the directory only.
C14_StartResets ==
    [][(~running /\ running')
         => /\ pending_hash' = NoHash
            /\ pending_perceptual_hash' = NoPerceptual
            /\ pending_count' = 0
            /\ screenshot_count' = 0
            /\ last_screenshot_path' = NoPath
            /\ \A h \in DOMAIN saved_screenshots' :
                  /\ saved_screenshots'[h].path \in DOMAIN disk
                  /\ h = ComputeExactHash(disk[saved_screenshots'[h].path])]_vars

\* C15: after stop() has returned the index is empty and the tracker holds
\* no candidate.
C15_ClearedAtStop ==
    (session.started /\ ~running /\ caller = "idle")
    => /\ saved_screenshots = <<>>
       /\ pending_hash = NoHash
       /\ pending_perceptual_hash = NoPerceptual
       /\ pending_count = 0

\* C16: a capture-loop thread whose tick raised goes on to its wait; a thread
\* ends only when it finds the stop event set; and after every tick, raising
\* or not, the thread starts a next tick unless it ends.
C16_FailedTickNotFatal ==
    /\ [][\A w \in Workers :
             /\ (worker[w] = "tick" /\ worker'[w] # "tick" /\ step'.raised)
                    => worker'[w] = "wait"
             /\ (worker[w] # "absent" /\ worker'[w] = "absent") => stop_event]_vars
    /\ \A w \in Workers : (worker[w] = "wait") ~> (worker[w] \in {"tick", "absent"})

\* the thread has begun a next tick after a tick whose image.save raised
C16_Witness ==
    /\ step.op = "tick" /\ step.raised
    /\ pending_hash # NoHash
    /\ ~stop_event
    /\ Cardinality(AliveWorkers) = 1
    /\ InFlight = AliveWorkers

\* C17: a tick that raised leaves the index, the files, the count and the
\* last path as they were.
C17_FailedTickSkipped ==
    [][(step'.op = "tick" /\ step'.raised /\ failures' > failures)
         => /\ saved_screenshots' = saved_screenshots
            /\ disk' = disk
            /\ screenshot_count' = screenshot_count
            /\ last_screenshot_path' = last_screenshot_path]_vars

\* C18: a status read by another thread never shows count 0 with a last path
\* set, nor a positive count under a label other than the session's.
C18_NoTornRead ==
    read # NoStatus
    => /\ read.status.screenshot_count = 0
             => read.status.last_screenshot_path = NoPath
       /\ read.status.screenshot_count > 0
             => read.status.meeting_title = read.label

\* C19: with a callback registered, every call or tick that changes the
\* count, the last path or the running flag, or removes a record, calls the
\* callback, and the latest status it hands over is the state it leaves.
C19_StatusPublished ==
    [][(/\ status_callback # NoCallback
        /\ \/ screenshot_count' # screenshot_count
           \/ last_screenshot_path' # last_screenshot_path
           \/ running' # running
           \/ DOMAIN saved_screenshots \ DOMAIN saved_screenshots' # {})
         => (step'.calls > 0 /\ emitted' = Status')]_vars

\* a tick has evicted the record of the last saved file without saving
C19_Witness ==
    /\ status_callback # NoCallback
    /\ step = Did("tick", 1, FALSE)
    /\ screenshot_count = 1
    /\ last_screenshot_path = NoPath
    /\ saved_screenshots = <<>>
    /\ emitted = Status

\* C20: with a callback that raises, a call or tick that emits does not
\* raise, and leaves the fields as with a callback that returns: a tick as
\* _capture_and_check_stability leaves them, start() a running session with
\* its thread, stop() a stopped one.
C20_ObserverIsolated ==
    [][(status_callback = "raises" /\ step'.calls > 0)
         => /\ ~step'.raised
            /\ step'.op = "tick" =>
                  \E r \in {CaptureAndCheckStabilityWith("returns", Last(observed'),
                                                         {}, FALSE)} :
                      /\ saved_screenshots' = r.saved
                      /\ disk' = r.disk
                      /\ screenshot_count' = r.count
                      /\ last_screenshot_path' = r.last
                      /\ pending_hash' = r.p_hash
                      /\ pending_perceptual_hash' = r.p_perceptual
                      /\ pending_count' = r.p_count
                      /\ step'.calls = Len(r.emits)
            /\ step'.op = "start" =>
                  /\ running' /\ ~stop_event'
                  /\ thread' # NoThread /\ worker'[thread'] = "check"
            /\ step'.op = "stop" => (~running' /\ stop_event' /\ thread' = NoThread)]_vars

\* a tick has evicted a record and saved a file, calling a raising callback
\* twice
C20_Witness ==
    /\ status_callback = "raises"
    /\ step = Did("tick", 2, FALSE)
    /\ screenshot_count = 2
    /\ pending_hash = NoHash /\ pending_count = 0
    /\ last_screenshot_path \in Files
    /\ Cardinality(Records) = 1

\* popcount(a xor b), counted bit by bit
DifferingBits(a, b) ==
    Cardinality({i \in 0..24 : (a \div (2 ^ i)) % 2 # (b \div (2 ^ i)) % 2})

\* C21 as stated: _are_hashes_similar(a, b) holds exactly when
\* popcount(a xor b) <= threshold, for every threshold including 0.
C21_SimilarIsWithinThreshold ==
    probe.op = "similar"
    => (probe.similar <=>
            DifferingBits(probe.hash_a, probe.hash_b) <= SimilarityBitThreshold)

\* C21 amended: the same for every positive threshold; with threshold 0 no
\* two perceptual hashes are similar, identical ones included.
C21_SimilarIsWithinPositiveThreshold ==
    probe.op = "similar"
    => (probe.similar <=>
            /\ SimilarityBitThreshold > 0
            /\ DifferingBits(probe.hash_a, probe.hash_b) <= SimilarityBitThreshold)

\* two hashes exactly the threshold apart (2 bits) were judged similar
C21_Witness ==
    /\ probe.op = "similar"
    /\ probe.hash_a = 0 /\ probe.hash_b = 3
    /\ SimilarityBitThreshold = 2
    /\ probe.similar

\* the frame a tick observed, and whether the tracker takes its hashes as
\* a continuation of its candidate
Observed(obs) == Last(obs)
Continuation(current_hash, perceptual_hash) ==
    /\ pending_hash # NoHash
    /\ \/ pending_hash = current_hash
       \/ /\ SimilarityBitThreshold > 0
          /\ DifferingBits(pending_perceptual_hash, perceptual_hash)
                <= SimilarityBitThreshold
\* a step that is a tick which grabbed a frame and did not raise
GrabbedTick == step'.op = "tick" /\ ~step'.raised /\ observed' # <<>>

\* C22: with change ratio 0 no tick removes a record or a file, start-up
\* reconciliation removes only files that are exact duplicates of an earlier
\* file, and the tracker restarts on every observation whose exact hash is
\* not its candidate's.
C22_ZeroRatioExactOnly ==
    [][config.change_percent = 0 =>
         /\ step'.op = "tick" =>
               /\ DOMAIN saved_screenshots \subseteq DOMAIN saved_screenshots'
               /\ DOMAIN disk \subseteq DOMAIN disk'
         /\ (~running /\ running') =>
               /\ \A p \in DOMAIN disk \ DOMAIN disk' :
                     \E q \in DOMAIN disk' : q < p /\ ExactDuplicates(disk[q], disk[p])
               /\ {r.path : r \in Values(saved_screenshots')} = DOMAIN disk'
         /\ ( /\ GrabbedTick
              /\ ComputeExactHash(Observed(observed')) \notin DOMAIN saved_screenshots
              /\ pending_hash # NoHash
              /\ pending_hash # ComputeExactHash(Observed(observed')) ) =>
               IF config.stability_samples > 1
               THEN /\ pending_hash' = ComputeExactHash(Observed(observed'))
                    /\ pending_count' = 1
               ELSE ComputeExactHash(Observed(observed')) \in DOMAIN saved_screenshots']_vars

\* with change ratio 0 the tracker, tracking A, has restarted on B, whose
\* perceptual hash is A's
C22_Witness ==
    /\ config.change_percent = 0
    /\ config.stability_samples = 2
    /\ observed = <<ImgA, ImgB>>
    /\ pending_hash = ComputeExactHash(ImgB)
    /\ pending_count = 1

\* C23: the bit threshold is floor(grid_size^2 * change_ratio) clamped to
\* [0, grid_size^2], and grid_size^2 is the number of bits of the perceptual
\* hashes it is applied to.
C23_ThresholdOverFingerprintGrid ==
    probe.op = "grid"
    => LET bits == config.hash_size * config.hash_size
       IN  /\ probe.threshold = Max(0, Min(bits, (bits * config.change_percent) \div 100))
           /\ probe.bits = bits

\* C24: a tick on a frame that is not archived removes every similar record
\* from the index whether its file is gone already, is unlinked or cannot be
\* unlinked; only an unlink that raised counts as a failure; the tick does
\* not raise and goes on to save the frame (stability_samples = 1); start-up
\* reconciliation leaves no two similar records and starts the session.
C24_DeletionFailuresTolerated ==
    [][/\ ( /\ GrabbedTick
            /\ ComputeExactHash(Observed(observed')) \notin DOMAIN saved_screenshots ) =>
              LET similar == {r \in Records :
                                 AreHashesSimilar(r.perceptual_hash,
                                     ComputePerceptualHash(Observed(observed')))}
              IN  /\ \A r \in similar : r.exact_hash \notin DOMAIN saved_screenshots'
                  /\ failures' - failures =
                        (IF \E r \in similar : r.path \in DOMAIN disk' THEN 1 ELSE 0)
                  /\ ComputeExactHash(Observed(observed')) \in DOMAIN saved_screenshots'
                  /\ pending_hash' = NoHash
       /\ step'.op = "tick" => ~step'.raised
       /\ (~running /\ step'.op = "start") =>
              /\ running'
              /\ \A a, b \in Values(saved_screenshots') :
                    a # b => ~AreHashesSimilar(a.perceptual_hash, b.perceptual_hash)]_vars

\* a tick has evicted two records at once, the file of one already removed
\* by somebody else, the file of the other impossible to unlink
C24_Witness ==
    /\ step.op = "tick"
    /\ externals = 1 /\ failures = 1
    /\ screenshot_count = 3
    /\ Cardinality(Records) = 1
    /\ Cardinality(Files) = 2
    /\ last_screenshot_path \in Files

\* C25: a file that start-up reconciliation cannot read stays in the
\* directory and out of the index, and the other files are reconciled as if
\* it were not there.
C25_UnreadableFileSkipped ==
    [][(~running /\ running') =>
         LET unread == session'.unread
         IN  /\ \A p \in unread :
                   /\ p \in DOMAIN disk' /\ disk'[p] = disk[p]
                   /\ \A r \in Values(saved_screenshots') : r.path # p
             /\ Reconciled(Restrict(disk, DOMAIN disk \ unread),
                           Restrict(disk', DOMAIN disk' \ unread),
                           saved_screenshots', WithinPositiveThreshold)]_vars

\* the first of three files could not be read; the third, a duplicate of
\* the second, was removed
C25_Witness ==
    /\ running
    /\ session.unread = {1}
    /\ session.files = {1, 2, 3}
    /\ Files = {1, 2}
    /\ {r.path : r \in Records} = {2}

\* C26: two frames have the same exact hash exactly when they have the same
\* width, height and bytes.
C26_ExactHashInjective ==
    probe.op = "exact"
    => (probe.hash_a = probe.hash_b <=>
            /\ probe.image_a.width = probe.image_b.width
            /\ probe.image_a.height = probe.image_b.height
            /\ probe.image_a.rgb = probe.image_b.rgb)

\* two frames of the same bytes and different dimensions got different hashes
C26_Witness ==
    /\ probe.op = "exact"
    /\ probe.image_a.rgb = probe.image_b.rgb
    /\ probe.image_a.width = 1 /\ probe.image_b.width = 2
    /\ probe.hash_a # probe.hash_b

\* C27: a tick whose frame is archived already empties the tracker and
\* changes nothing else, and calls no callback.
C27_ArchivedFrameResetsTracker ==
    [][(GrabbedTick /\ ComputeExactHash(Observed(observed')) \in DOMAIN saved_screenshots)
         => /\ pending_hash' = NoHash
            /\ pending_perceptual_hash' = NoPerceptual
            /\ pending_count' = 0
            /\ UNCHANGED <<saved_screenshots, disk, screenshot_count,
                           last_screenshot_path, emitted, clock>>
            /\ step'.calls = 0]_vars

\* the tracker was tracking D when a tick observed the archived A
C27_Witness ==
    /\ config.stability_samples = 2
    /\ Len(observed) >= 2
    /\ observed[Len(observed) - 1] = ImgD /\ Last(observed) = ImgA
    /\ ComputeExactHash(ImgA) \in DOMAIN saved_screenshots
    /\ ComputeExactHash(ImgD) \notin DOMAIN saved_screenshots
    /\ step = Did("tick", 0, FALSE)
    /\ pending_hash = NoHash /\ pending_count = 0

\* the count the tracker comes to on an observation
CountOn(current_hash, perceptual_hash) ==
    IF Continuation(current_hash, perceptual_hash) THEN pending_count + 1 ELSE 1

\* C28: on an observation that is not archived and does not complete the
\* stability run, a tracker without candidate takes the observation as its
\* candidate with count 1; a tracker with a candidate keeps it and counts
\* one more if the observation has the candidate's exact hash or a similar
\* perceptual hash, and otherwise takes the observation with count 1.
C28_TrackerAdvances ==
    [][(GrabbedTick /\ ComputeExactHash(Observed(observed')) \notin DOMAIN saved_screenshots) =>
         LET current_hash == ComputeExactHash(Observed(observed'))
             perceptual_hash == ComputePerceptualHash(Observed(observed'))
             continues == Continuation(current_hash, perceptual_hash)
         IN  CountOn(current_hash, perceptual_hash) < config.stability_samples =>
                /\ pending_count' = CountOn(current_hash, perceptual_hash)
                /\ pending_hash' = (IF continues THEN pending_hash ELSE current_hash)
                /\ pending_perceptual_hash' =
                      (IF continues THEN pending_perceptual_hash ELSE perceptual_hash)]_vars

\* tracking A, the tracker has counted the similar C as a second observation
C28_Witness ==
    /\ config.stability_samples = 3
    /\ observed = <<ImgA, ImgC>>
    /\ pending_hash = ComputeExactHash(ImgA)
    /\ pending_perceptual_hash = ComputePerceptualHash(ImgA)
    /\ pending_count = 2

\* C29: a tick whose observation brings the count to stability_samples
\* writes the frame it observed to a new file, inserts the record of that
\* frame's own hashes, adds one to the count, sets the last path to the new
\* file and empties the tracker.
C29_ConfirmationPersists ==
    [][(GrabbedTick /\ ComputeExactHash(Observed(observed')) \notin DOMAIN saved_screenshots) =>
         LET current_hash == ComputeExactHash(Observed(observed'))
             perceptual_hash == ComputePerceptualHash(Observed(observed'))
         IN  CountOn(current_hash, perceptual_hash) >= config.stability_samples =>
                /\ \E p \in DOMAIN disk' \ DOMAIN disk :
                      /\ disk'[p] = Observed(observed')
                      /\ current_hash \in DOMAIN saved_screenshots'
                      /\ saved_screenshots'[current_hash] =
                            [path |-> p, exact_hash |-> current_hash,
                             perceptual_hash |-> perceptual_hash]
                      /\ last_screenshot_path' = p
                /\ screenshot_count' = screenshot_count + 1
                /\ pending_hash' = NoHash
                /\ pending_perceptual_hash' = NoPerceptual
                /\ pending_count' = 0]_vars

\* tracking A through two similar observations of C, the third tick has
\* saved C
C29_Witness ==
    /\ config.stability_samples = 3
    /\ observed = <<ImgA, ImgC, ImgC>>
    /\ screenshot_count = 1
    /\ last_screenshot_path \in Files
    /\ disk[last_screenshot_path] = ImgC
    /\ DOMAIN saved_screenshots = {ComputeExactHash(ImgC)}
    /\ pending_hash = NoHash /\ pending_count = 0

\* C30: once stability_samples ticks in a row have observed one frame with
\* nothing failing, the index holds the record of that frame, whatever the
\* tracker held before those ticks.
C30_ConfirmedWithinRun ==
    (session.streak >= config.stability_samples /\ observed # <<>>)
    => ComputeExactHash(Last(observed)) \in DOMAIN saved_screenshots

\* after a tick on D and a failed tick, two ticks in a row have observed A
C30_Witness ==
    /\ config.stability_samples = 2
    /\ failures = 1
    /\ session.streak = 2
    /\ observed = <<ImgD, ImgA, ImgA>>
    /\ DOMAIN saved_screenshots = {ComputeExactHash(ImgA)}

\* the records that _prepare_for_new_screenshot is to remove for the hashes
\* of `image`: the one of the same exact hash, and the similar ones
Purged(image) ==
    {r \in Records :
        \/ r.exact_hash = ComputeExactHash(image)
        \/ /\ SimilarityBitThreshold > 0
           /\ DifferingBits(r.perceptual_hash, ComputePerceptualHash(image))
                 <= SimilarityBitThreshold}
PrepareStep == probe = NoProbe /\ probe'.op = "prepare"

\* C31 as stated: _prepare_for_new_screenshot removes from the index the
\* record of the same exact hash and every record similar to the new
\* perceptual hash, deletes the file of each removed record, clears the last
\* path when it names a removed record, and leaves every other record and
\* file as it is.
C31_PrepareRemovesAndDeletes ==
    [][PrepareStep =>
         LET purged == Purged(probe'.image)
             paths == {r.path : r \in purged}
         IN  /\ saved_screenshots' =
                   Restrict(saved_screenshots,
                            DOMAIN saved_screenshots \ {r.exact_hash : r \in purged})
             /\ disk' = Restrict(disk, DOMAIN disk \ paths)
             /\ last_screenshot_path' =
                   (IF last_screenshot_path \in paths THEN NoPath
                    ELSE last_screenshot_path)]_vars

\* C31 amended: the same, except that the file of a removed record stays in
\* the directory when its unlink raises.
C31_PrepareRemovesAndUnlinks ==
    [][PrepareStep =>
         LET purged == Purged(probe'.image)
             paths == {r.path : r \in purged}
         IN  /\ saved_screenshots' =
                   Restrict(saved_screenshots,
                            DOMAIN saved_screenshots \ {r.exact_hash : r \in purged})
             /\ DOMAIN disk \ paths \subseteq DOMAIN disk'
             /\ DOMAIN disk' \subseteq DOMAIN disk
             /\ \A p \in DOMAIN disk' : disk'[p] = disk[p]
             /\ (paths \cap DOMAIN disk' # {}) => failures' = failures + 1
             /\ last_screenshot_path' =
                   (IF last_screenshot_path \in paths THEN NoPath
                    ELSE last_screenshot_path)]_vars

\* called with the hashes of C, it has removed the records of A and D, the
\* file of the one unlinked, the file of the other (the last saved)
\* impossible to unlink, and cleared the last path
C31_Witness ==
    /\ probe = [op |-> "prepare", image |-> ImgC]
    /\ step.op = "prepare"
    /\ screenshot_count = 2
    /\ Records = {}
    /\ Cardinality(Files) = 1
    /\ failures = 1
    /\ last_screenshot_path = NoPath
    /\ clock - 1 \in Files

\* the files that the scan of start-up reconciliation makes records of (the
\* first file of each exact hash), and those of them that the pruning pass
\* marks: the ones similar to a scanned file before them in sorted order
Scanned(d) ==
    {p \in DOMAIN d : ~\E q \in DOMAIN d : q < p /\ ExactDuplicates(d[q], d[p])}
Marked(d) ==
    {p \in Scanned(d) : \E q \in Scanned(d) : q < p /\ WithinPositiveThreshold(d[q], d[p])}

\* C32: start-up reconciliation removes a record exactly when a record
\* before it in sorted order is similar to it, whether that earlier record
\* is removed itself or not; the first record always stays; the marked
\* records and their files are all removed.
C32_PrunedIffEarlierSimilar ==
    [][(~running /\ running') =>
         /\ {r.path : r \in Values(saved_screenshots')} = Scanned(disk) \ Marked(disk)
         /\ DOMAIN disk' = Scanned(disk) \ Marked(disk)
         /\ DOMAIN disk # {} =>
               \E r \in Values(saved_screenshots') :
                   \A p \in DOMAIN disk : r.path <= p]_vars

\* of the files A, C, D the second is similar to the first and the third to
\* the second only: the second and the third are removed
C32_Witness ==
    /\ running
    /\ session.found = <<ImgA, ImgC, ImgD>>
    /\ SimilarityBitThreshold = 1
    /\ Files = {1}
    /\ {r.path : r \in Records} = {1}

\* C33: every file that start-up reconciliation deletes is an exact
\* duplicate of, or similar to, a file that it leaves in the directory and
\* in the index.
C33_DeletedFileHasSurvivor ==
    [][(~running /\ running') =>
         \A p \in DOMAIN disk \ DOMAIN disk' :
            \E r \in Values(saved_screenshots') :
               /\ r.path \in DOMAIN disk'
               /\ \/ ExactDuplicates(disk'[r.path], disk[p])
                  \/ WithinPositiveThreshold(disk'[r.path], disk[p])]_vars

\* C34: from the return of stop() to the next start(), no file is written or
\* deleted, no record is added or removed, the count and the last path do
\* not change and the callback gets no status.
C34_QuiescentAfterStop ==
    [][(/\ session.started
        /\ ~running /\ ~running'
        /\ caller = "idle" /\ caller' = "idle")
         => UNCHANGED <<disk, saved_screenshots, screenshot_count,
                        last_screenshot_path, emitted>>]_vars

\* C35: within one session the statuses handed to the callback carry counts
\* that never decrease, however the emissions of start() and stop() on the
\* caller's thread interleave with those of the capture-loop thread.
C35_CountsDeliveredInOrder ==
    [][(emitted # NoStatus /\ emitted' # NoStatus)
         => emitted'.screenshot_count >= emitted.screenshot_count]_vars

\* C36 as stated: at every tick boundary and right after every start() the
\* tracker is empty (no candidate hashes, count 0) or tracking (both
\* candidate hashes set, 1 <= count < stability_samples).
C36_TrackerWellFormed ==
    (session.started /\ caller = "idle")
    => \/ /\ pending_hash = NoHash
          /\ pending_perceptual_hash = NoPerceptual
          /\ pending_count = 0
       \/ /\ pending_hash # NoHash
          /\ pending_perceptual_hash # NoPerceptual
          /\ 1 <= pending_count
          /\ pending_count < config.stability_samples

\* C37: whenever no capture-loop thread is inside a tick, the last path is
\* unset or the path of a record of the index.
C37_LastPathIsIndexed ==
    (\A w \in Workers : worker[w] \notin {"tick", "insert"})
    => \/ last_screenshot_path = NoPath
       \/ \E r \in Records : r.path = last_screenshot_path

\* C38: a tick adds one to the count exactly when it writes a file, stop()
\* leaves the count, and the count goes down only in a start(), to 0.
C38_CountMonotone ==
    [][/\ step'.op = "tick" =>
             screenshot_count' =
                screenshot_count + (IF DOMAIN disk' \ DOMAIN disk # {} THEN 1 ELSE 0)
       /\ step'.op = "stop" => screenshot_count' = screenshot_count
       /\ screenshot_count' < screenshot_count =>
             (~running /\ step'.op = "start" /\ screenshot_count' = 0)]_vars

\* three saves, the third of which evicted the files of the first two
C38_Witness ==
    /\ step.op = "tick"
    /\ failures = 0
    /\ screenshot_count = 3
    /\ Cardinality(Files) = 1
    /\ Cardinality(Records) = 1

\* C39: no iteration of the capture loop feeds the tracker a second frame:
\* the full display is never captured after the capture of the share window
\* has fed the tracker in the same iteration.
C39_OneObservationPerTick == step.op # "fallback"

\* C40: the perceptual hash of a grid of n cells is below 2^n, and its bit
\* for cell i, the first cell being the most significant bit, is 1 exactly
\* when the cell is at least the mean of all cells.
C40_OneBitPerCellAgainstMean ==
    probe.op = "pack"
    => LET n == Len(probe.pixels)
       IN  /\ probe.bits >= 0 /\ probe.bits < 2 ^ n
           /\ \A i \in 1..n :
                 ((probe.bits \div (2 ^ (n - i))) % 2 = 1)
                    <=> (probe.pixels[i] * n >= SumSeq(probe.pixels))

\* a grid whose first cell alone reaches the mean packs to the top bit alone
C40_Witness ==
    /\ probe.op = "pack"
    /\ probe.pixels = <<255, 0, 0, 0>> \o <<0, 0, 0, 0>> \o <<0, 0, 0, 0>>
                        \o <<0, 0, 0, 0>>
    /\ probe.bits = 32768

=============================================================================
